---------------------------- MODULE Spec2Model ----------------------------
(***************************************************************************)
(* A model of netdissect/imgviz.py: the ImageVisualizer class and the      *)
(* module-level helpers border_from_mask, input_size_from_source and       *)
(* find_sizer.                                                             *)
(*                                                                         *)
(* Python values are records tagged with their class in the field cls, so  *)
(* that `x is None`, isinstance, hasattr and getattr are tests on the      *)
(* record.  A tensor is [cls, shape, data] with data the row-major         *)
(* flattening of its elements; indices are 0-based as in the source.       *)
(* A raised exception is a record [cls |-> <exception class>, raised].     *)
(***************************************************************************)
EXTENDS Integers, Sequences, FiniteSets, TLC

VARIABLES
    args,   \* the arguments of ImageVisualizer(...)
    pc,     \* "new": not constructed, "ready": constructed, "failed": __init__ raised
    self,   \* the attributes of the visualizer (None before construction)
    inp,    \* the arguments the calls are made with
    op,     \* the name of the last call made ("none" before the first)
    ret,    \* what the last call returned or raised
    frame   \* the local variables of the last call when it ended

vars == <<args, pc, self, inp, op, ret, frame>>

(***************************************************************************)
(* Bounds of the model.                                                    *)
(***************************************************************************)
MaxSide == 3        \* masks given to border_from_mask are at most MaxSide x MaxSide
MaxNodes == 4       \* a source object is a tree of at most MaxNodes nodes
MaxVal == 1         \* activation values are 0..MaxVal

(***************************************************************************)
(* Python values.                                                          *)
(***************************************************************************)
None == [cls |-> "NoneType"]

Raise(exc) == [cls |-> exc, raised |-> TRUE]

IsRaised(x) == "raised" \in DOMAIN x

Tensor(shape, data) == [cls |-> "Tensor", shape |-> shape, data |-> data]

RECURSIVE Prod(_)
Prod(s) == IF s = <<>> THEN 1 ELSE Head(s) * Prod(Tail(s))

\* the element (i, j) of a 2-D tensor
At(t, i, j) == t.data[i * t.shape[2] + j + 1]

\* a 2-D tensor from its shape and its element function
Tensor2(h, w, F(_, _)) ==
    Tensor(<<h, w>>, [k \in 1..(h * w) |-> F((k - 1) \div w, (k - 1) % w)])

(***************************************************************************)
(* border_from_mask                                                        *)
(***************************************************************************)
zeros_like(a) == Tensor(a.shape, [k \in 1..Len(a.data) |-> FALSE])

\* a[r0:r1, c0:c1]
Slice(a, r0, r1, c0, c1) ==
    Tensor2(r1 - r0, c1 - c0, LAMBDA i, j : At(a, r0 + i, c0 + j))

\* x != y, elementwise, for two tensors of one shape
NotEqual(x, y) ==
    Tensor(x.shape, [k \in 1..Len(x.data) |-> x.data[k] /= y.data[k]])

\* out[r0:r0+m.shape[0], c0:c0+m.shape[1]] |= m
OrInto(out, r0, c0, m) ==
    Tensor2(out.shape[1], out.shape[2],
        LAMBDA i, j :
            IF /\ r0 <= i /\ i < r0 + m.shape[1]
               /\ c0 <= j /\ j < c0 + m.shape[2]
            THEN At(out, i, j) \/ At(m, i - r0, j - c0)
            ELSE At(out, i, j))

\* The border with out aliasing the argument instead of a fresh tensor:
\* every in-place update then lands in the caller's mask as well.
border_from_mask_aliased(a) ==
    LET H == a.shape[1]
        W == a.shape[2]
        h == NotEqual(Slice(a, 0, H - 1, 0, W), Slice(a, 1, H, 0, W))
        v == NotEqual(Slice(a, 0, H, 0, W - 1), Slice(a, 0, H, 1, W))
        out1 == OrInto(a, 0, 0, h)
        out2 == OrInto(out1, 1, 0, h)
        out3 == OrInto(out2, 0, 0, v)
        out4 == OrInto(out3, 0, 1, v)
    IN  [a |-> out4, out |-> out4]

\* The argument a when the call ends, and the tensor returned.
border_from_mask(a) ==
    LET H == a.shape[1]
        W == a.shape[2]
        out0 == zeros_like(a)
        h == NotEqual(Slice(a, 0, H - 1, 0, W), Slice(a, 1, H, 0, W))
        v == NotEqual(Slice(a, 0, H, 0, W - 1), Slice(a, 0, H, 1, W))
        out1 == OrInto(out0, 0, 0, h)
        out2 == OrInto(out1, 1, 0, h)
        out3 == OrInto(out2, 0, 0, v)
        out4 == OrInto(out3, 0, 1, v)
    IN  [a |-> a, out |-> out4]

(***************************************************************************)
(* Inputs of the border specification: every boolean mask of shape [H, W]  *)
(* with 1 <= H, W <= MaxSide.                                              *)
(***************************************************************************)
MaskOfShape(h, w) == { Tensor(<<h, w>>, d) : d \in [1..(h * w) -> BOOLEAN] }

NoArgs ==
    [size |-> None, input_size |-> None, data_size |-> None,
     renormalizer |-> None, scale_offset |-> None, level |-> None,
     actrange |-> None, source |-> None, convolutions |-> None,
     quantiles |-> None]

InitBorder ==
    /\ args = NoArgs
    /\ pc = "new"
    /\ self = None
    /\ \E h \in 1..MaxSide, w \in 1..MaxSide :
           \E a \in MaskOfShape(h, w) : inp = [a |-> a]
    /\ op = "none"
    /\ ret = None
    /\ frame = None

BorderFromMask ==
    /\ op = "none"
    /\ op' = "border_from_mask"
    /\ LET r == border_from_mask(inp.a)
       IN  ret' = r.out /\ frame' = [a |-> r.a, out |-> r.out]
    /\ UNCHANGED <<args, pc, self, inp>>

NextBorder == BorderFromMask

SpecBorder == InitBorder /\ [][NextBorder]_vars

(***************************************************************************)
(* C1: border_from_mask returns a mask of the shape of its argument in     *)
(* which pixel (i, j) is true iff mask(i, j) differs from one of its       *)
(* in-bounds 4-neighbours; a uniform mask gives an all-false border; the   *)
(* argument is not modified.                                               *)
(***************************************************************************)
InBounds(t, i, j) == 0 <= i /\ i < t.shape[1] /\ 0 <= j /\ j < t.shape[2]

Neighbours(i, j) == {<<i + 1, j>>, <<i - 1, j>>, <<i, j + 1>>, <<i, j - 1>>}

DiffersFromNeighbour(t, i, j) ==
    \E n \in Neighbours(i, j) :
        InBounds(t, n[1], n[2]) /\ At(t, n[1], n[2]) /= At(t, i, j)

Uniform(t) == \A k \in 1..Len(t.data) : t.data[k] = t.data[1]

C1_BorderIffDiffers ==
    op = "border_from_mask" =>
        /\ ret.shape = inp.a.shape
        /\ Len(ret.data) = Len(inp.a.data)
        /\ \A i \in 0..(inp.a.shape[1] - 1), j \in 0..(inp.a.shape[2] - 1) :
               At(ret, i, j) <=> DiffersFromNeighbour(inp.a, i, j)
        /\ Uniform(inp.a) => \A k \in 1..Len(ret.data) : ~ret.data[k]
        /\ frame.a = inp.a

\* a corner pixel that is not border although the mask is not uniform, next
\* to a border pixel in the last row: the edges and both passes are at work
C1_Witness ==
    /\ op = "border_from_mask"
    /\ inp.a.shape = <<MaxSide, MaxSide>>
    /\ ~Uniform(inp.a)
    /\ ~At(ret, 0, 0)
    /\ At(ret, MaxSide - 1, MaxSide - 1)
    /\ At(ret, 0, MaxSide - 1)

(***************************************************************************)
(* find_sizer and input_size_from_source                                   *)
(***************************************************************************)
\* getattr(obj, name, default)
getattr(obj, name, default) == IF name \in DOMAIN obj THEN obj[name] ELSE default

\* the classes of the isinstance test of find_sizer
SizerClasses == {"Resize", "RandomCrop", "RandomResizedCrop", "CenterCrop"}

\* The name reverse_normalize_from_transform is neither defined nor imported
\* in imgviz.py: evaluating it raises NameError, whatever the argument.
reverse_normalize_from_transform(t) == Raise("NameError")

RECURSIVE find_sizer(_)
\* for t in reversed(ts): the elements ts[i], ts[i-1], ..., ts[1] in turn
RECURSIVE ScanReversed(_, _)
ScanReversed(ts, i) ==
    IF i = 0 THEN None
    ELSE LET result == find_sizer(ts[i])
         IN  IF IsRaised(result) THEN result
             ELSE IF result /= None THEN result
             ELSE ScanReversed(ts, i - 1)

find_sizer(source) ==
    IF source = None THEN None
    ELSE IF source.cls \in SizerClasses THEN source
    ELSE LET t == getattr(source, "transform", None)
         IN  IF t /= None THEN reverse_normalize_from_transform(t)
             ELSE LET ts == getattr(source, "transforms", None)
                  IN  IF ts /= None THEN ScanReversed(ts.v, Len(ts.v))
                      ELSE None

\* the size left undetermined (None) when no sizer is found
input_size_from_source_or_none(source) ==
    LET sizer == find_sizer(source)
    IN  IF IsRaised(sizer) THEN sizer
        ELSE IF sizer = None THEN None
        ELSE sizer.size

input_size_from_source(source) ==
    LET sizer == find_sizer(source)
    IN  IF IsRaised(sizer) THEN sizer
        ELSE IF "size" \notin DOMAIN sizer THEN Raise("AttributeError")
        ELSE sizer.size

(***************************************************************************)
(* Inputs of the sizer specification: the objects a source can be, as      *)
(* trees of at most MaxNodes nodes.  A leaf is a crop/resize transform,    *)
(* another transform, or None; a Compose holds a sequence `transforms`; a  *)
(* Dataset holds one `transform`; a VisionDataset holds both.              *)
(***************************************************************************)
PyInt(n) == [cls |-> "int", v |-> n]

RandomCrop(n) == [cls |-> "RandomCrop", size |-> PyInt(n)]
Resize(n) == [cls |-> "Resize", size |-> PyInt(n)]
ToTensor == [cls |-> "ToTensor"]
PyList(v) == [cls |-> "list", v |-> v]
Compose(ts) == [cls |-> "Compose", transforms |-> PyList(ts)]
Dataset(t) == [cls |-> "Dataset", transform |-> t]
VisionDataset(t, ts) ==
    [cls |-> "VisionDataset", transform |-> t, transforms |-> PyList(ts)]

Leaves == {RandomCrop(224), Resize(256), ToTensor, None}

RECURSIVE NodeCount(_)
RECURSIVE NodeCountSeq(_)
NodeCountSeq(ts) == IF ts = <<>> THEN 0 ELSE NodeCount(Head(ts)) + NodeCountSeq(Tail(ts))
NodeCount(t) ==
    1 + (IF "transform" \in DOMAIN t THEN NodeCount(t.transform) ELSE 0)
      + (IF "transforms" \in DOMAIN t THEN NodeCountSeq(t.transforms.v) ELSE 0)

RECURSIVE Trees(_)
RECURSIVE Forests(_)
\* the sequences of trees with at most n nodes in all
Forests(n) ==
    {<<>>} \cup
    (IF n = 0 THEN {}
     ELSE UNION { { <<t>> \o f : f \in Forests(n - NodeCount(t)) } : t \in Trees(n) })
\* the trees with at most n nodes
Trees(n) ==
    IF n <= 0 THEN {}
    ELSE Leaves
         \cup { Compose(f) : f \in Forests(n - 1) }
         \cup { Dataset(t) : t \in Trees(n - 1) }
         \cup { VisionDataset(p[1], <<p[2]>>) :
                  p \in { q \in Trees(n - 2) \X Trees(n - 2) :
                            NodeCount(q[1]) + NodeCount(q[2]) < n } }

(***************************************************************************)
(* Tensors of numbers: indexing, min, max, sort.                           *)
(***************************************************************************)
PyTuple(v) == [cls |-> "tuple", v |-> v]

Scalar(x) == Tensor(<<>>, <<x>>)

\* t[u] for an integer u: the u-th slice along the first dimension
Index1(t, u) ==
    IF IsRaised(t) THEN t
    ELSE IF t.shape = <<>> THEN Raise("IndexError")
    ELSE LET n == t.shape[1]
             i == IF u < 0 THEN u + n ELSE u
             stride == Prod(Tail(t.shape))
         IN  IF i < 0 \/ i >= n THEN Raise("IndexError")
             ELSE Tensor(Tail(t.shape), SubSeq(t.data, i * stride + 1, (i + 1) * stride))

\* t[unit] for an integer or a tuple of integers
RECURSIVE IndexAll(_, _)
IndexAll(t, ix) == IF ix = <<>> THEN t ELSE IndexAll(Index1(t, Head(ix)), Tail(ix))

GetItem(t, unit) ==
    IF unit.cls = "tuple" THEN IndexAll(t, unit.v) ELSE Index1(t, unit.v)

\* hasattr(unit, '__len__')
HasLen(unit) == unit.cls = "tuple"

SeqMin(d) == CHOOSE x \in { d[k] : k \in 1..Len(d) } : \A k \in 1..Len(d) : x <= d[k]
SeqMax(d) == CHOOSE x \in { d[k] : k \in 1..Len(d) } : \A k \in 1..Len(d) : x >= d[k]

\* ascending sort, by insertion
RECURSIVE Insert(_, _)
Insert(x, srt) ==
    IF srt = <<>> THEN <<x>>
    ELSE IF x <= Head(srt) THEN <<x>> \o srt
    ELSE <<Head(srt)>> \o Insert(x, Tail(srt))

RECURSIVE Sort(_)
Sort(d) == IF d = <<>> THEN <<>> ELSE Insert(Head(d), Sort(Tail(d)))

\* int(n * 0.99): the product is rounded to a double and truncated.  For
\* 0 <= n <= 100000 the double product truncates to floor(99 n / 100).
IntTimes099(n) == (n * 99) \div 100

(***************************************************************************)
(* ImageVisualizer.range_for and level_for                                 *)
(***************************************************************************)
\* the selector resolved with the first element of a pair instead of the
\* second
range_for_first(slf, activations, unit) ==
    IF unit /= None /\ slf.actrange /= None
    THEN LET u == IF HasLen(unit) THEN PyInt(unit.v[1]) ELSE unit
         IN  GetItem(slf.actrange, u)
    ELSE PyTuple(<<Scalar(SeqMin(activations.data)), Scalar(SeqMax(activations.data))>>)

range_for(slf, activations, unit) ==
    IF unit /= None /\ slf.actrange /= None
    THEN LET u == IF HasLen(unit) THEN PyInt(unit.v[2]) ELSE unit
         IN  GetItem(slf.actrange, u)
    ELSE PyTuple(<<Scalar(SeqMin(activations.data)), Scalar(SeqMax(activations.data))>>)

\* What level_for returns, with its local s: the sorted values when they
\* were computed, None when the table was read.
LevelOutcome(r, srt) == [ret |-> r, frame |-> [s |-> srt]]

\* the level taken at the middle of the sorted values instead of the 99th
\* percentile rank
level_for_median(slf, activations, unit) ==
    IF unit /= None /\ slf.level /= None
    THEN LET u == IF HasLen(unit) THEN PyInt(unit.v[2]) ELSE unit
         IN  LevelOutcome(GetItem(slf.level, u), None)
    ELSE LET srt == Tensor(<<Len(activations.data)>>, Sort(activations.data))
         IN  LevelOutcome(Index1(srt, Len(srt.data) \div 2), srt)

level_for(slf, activations, unit) ==
    IF unit /= None /\ slf.level /= None
    THEN LET u == IF HasLen(unit) THEN PyInt(unit.v[2]) ELSE unit
         IN  LevelOutcome(GetItem(slf.level, u), None)
    ELSE LET srt == Tensor(<<Len(activations.data)>>, Sort(activations.data))
         IN  LevelOutcome(Index1(srt, IntTimes099(Len(srt.data))), srt)

(***************************************************************************)
(* The collaborators of the visualizer that live in other modules:         *)
(* netdissect.upsample, netdissect.renormalize and the quantile provider.  *)
(***************************************************************************)
\* renormalize.renormalizer(...): a conversion to byte-range RGB
renormalizer(source, mode) == [cls |-> "Renormalizer", source |-> source, mode |-> mode]

\* renormalizer(imagedata): zero-centred values -1, 0, 1 become 0, 127, 255
ApplyRenormalizer(r, img) ==
    Tensor(img.shape, [k \in 1..Len(img.data) |-> ((img.data[k] + 1) * 255) \div 2])

\* upsample.sequence_scale_offset(convolutions): the composed strides
sequence_scale_offset(convolutions) ==
    [cls |-> "scale_offset", scale |-> Prod(convolutions.v), offset |-> 0]

\* upsample.sequence_data_size(convolutions, input_size): each layer
\* divides the spatial size by its stride
sequence_data_size(convolutions, input_size) ==
    IF input_size = None THEN Raise("TypeError")
    ELSE PyTuple([k \in 1..Len(input_size.v) |->
                    input_size.v[k] \div Prod(convolutions.v)])

\* quantiles.quantiles([0.99])[:,0]: one level per unit
QuantileLevel(q) == Tensor(<<Len(q.q99)>>, q.q99)

\* quantiles.quantiles([0.01, 0.99]): one (low, high) row per unit
QuantileRange(q) ==
    Tensor(<<Len(q.q99), 2>>,
           [k \in 1..(2 * Len(q.q99)) |->
               IF k % 2 = 1 THEN q.q01[(k + 1) \div 2] ELSE q.q99[k \div 2]])

\* upsample.upsampler(data_shape, target_shape, input_shape, scale_offset)
upsampler(data_shape, size, input_shape, scale_offset) ==
    [cls |-> "Upsampler", data_shape |-> data_shape, size |-> size,
     input_shape |-> input_shape, scale_offset |-> scale_offset]

\* nearest resampling of a 2-D map to h x w
Nearest(a, h, w) ==
    Tensor2(h, w, LAMBDA i, j : At(a, (i * a.shape[1]) \div h, (j * a.shape[2]) \div w))

\* upsampler(a[None,None,...], mode)[0,0]: the maps the call may return.
\* The grid must be a 2-D map of the shape the upsampler was built for.  In
\* nearest mode each output pixel is an input cell; in bilinear mode it is
\* a weighted mean of input cells, which lies between the least and the
\* greatest value of the grid.
Upsample(u, a, mode) ==
    IF Len(a.shape) /= 2 \/ u.data_shape.v /= a.shape
    THEN {Raise("RuntimeError")}
    ELSE LET h == u.size.v[1]
             w == u.size.v[2]
         IN  IF mode = "nearest" THEN {Nearest(a, h, w)}
             ELSE { Tensor(<<h, w>>, d) :
                      d \in [1..(h * w) -> SeqMin(a.data)..SeqMax(a.data)] }

\* torch.nn.functional.interpolate(x[None,...], size=size)[0] of a [C, H, W]
\* image: nearest resampling of each channel
interpolate(img, size) ==
    LET c == img.shape[1]
        h == size.v[1]
        w == size.v[2]
    IN  Tensor(<<c, h, w>>,
               [k \in 1..(c * h * w) |->
                   LET ch == (k - 1) \div (h * w)
                       i == ((k - 1) % (h * w)) \div w
                       j == (k - 1) % w
                   IN  Index1(img, ch).data[
                           ((i * img.shape[2]) \div h) * img.shape[3]
                               + ((j * img.shape[3]) \div w) + 1]])

(***************************************************************************)
(* ImageVisualizer                                                         *)
(***************************************************************************)
\* ImageVisualizer(...): the attributes of the new object, or the exception
\* that __init__ lets through
__init__(a) ==
    LET input_size ==
            IF a.input_size = None /\ a.source /= None
            THEN input_size_from_source(a.source) ELSE a.input_size
        rn ==
            IF a.renormalizer = None /\ a.source /= None
            THEN renormalizer(a.source, "byte") ELSE a.renormalizer
        scale_offset ==
            IF a.scale_offset = None /\ a.convolutions /= None
            THEN sequence_scale_offset(a.convolutions) ELSE a.scale_offset
        data_size ==
            IF a.data_size = None /\ a.convolutions /= None
            THEN sequence_data_size(a.convolutions, input_size) ELSE a.data_size
        level ==
            IF a.level = None /\ a.quantiles /= None
            THEN QuantileLevel(a.quantiles) ELSE a.level
        actrange ==
            IF a.actrange = None /\ a.quantiles /= None
            THEN QuantileRange(a.quantiles) ELSE a.actrange
    IN  IF IsRaised(input_size) THEN input_size
        ELSE IF IsRaised(data_size) THEN data_size
        ELSE [cls |-> "ImageVisualizer",
              size |-> a.size,
              input_size |-> input_size,
              data_size |-> data_size,
              renormalizer |-> rn,
              scale_offset |-> scale_offset,
              level |-> level,
              actrange |-> actrange,
              upsampler |->
                  IF data_size /= None
                  THEN upsampler(data_size, a.size, input_size, scale_offset)
                  ELSE None]

\* A call's outcome: the visualizer after the call, the value returned or
\* the exception raised, and the call's local variables.
Outcome(slf, r, loc) == [self |-> slf, ret |-> r, frame |-> loc]

\* upsampler_for keeping the upsampler it builds in the upsampler slot
upsampler_for_cached(slf, a) ==
    IF slf.upsampler /= None THEN Outcome(slf, slf.upsampler, None)
    ELSE LET u == upsampler(PyTuple(a.shape), slf.size, slf.input_size, slf.scale_offset)
         IN  Outcome([slf EXCEPT !.upsampler = u], u, None)

upsampler_for(slf, a) ==
    IF slf.upsampler /= None THEN Outcome(slf, slf.upsampler, None)
    ELSE Outcome(slf, upsampler(PyTuple(a.shape), slf.size, slf.input_size,
                                slf.scale_offset), None)

renormalizer_for(slf, image) ==
    IF slf.renormalizer /= None THEN slf.renormalizer
    ELSE renormalizer("zc", "rgb")

scaled_image(slf, imagedata) ==
    LET img == IF Len(imagedata.shape) = 4 THEN Index1(imagedata, 0) ELSE imagedata
        rn == renormalizer_for(slf, img)
    IN  interpolate(ApplyRenormalizer(rn, img), slf.size)

\* t.permute(1, 2, 0) of a [C, H, W] tensor
Permute120(t) ==
    LET c == t.shape[1]
        h == t.shape[2]
        w == t.shape[3]
    IN  Tensor(<<h, w, c>>,
               [k \in 1..(c * h * w) |->
                   LET p == (k - 1) \div c
                       ch == (k - 1) % c
                   IN  t.data[ch * h * w + p + 1]])

\* PIL.Image.fromarray of an 8-bit [H, W, C] array
Image(t) == [cls |-> "Image", shape |-> t.shape, data |-> t.data]

\* x.clamp(0, 255).byte() of a non-negative number given as a fraction n / 2
ClampByteHalves(n) == IF n > 510 THEN 255 ELSE IF n < 0 THEN 0 ELSE n \div 2

image(slf, imagedata) ==
    LET t == scaled_image(slf, imagedata)
    IN  Image(Permute120(Tensor(t.shape, [k \in 1..Len(t.data) |-> t.data[k] % 256])))

\* activations if unit is None, else activations[unit]
Select(activations, unit) ==
    IF unit = None THEN activations ELSE GetItem(activations, unit)

\* m > level, elementwise; an exception raised by the upsampler goes through
GreaterThan(m, level) ==
    IF IsRaised(m) THEN m
    ELSE Tensor(m.shape, [k \in 1..Len(m.data) |-> m.data[k] > level.data[1]])

\* m >= level, elementwise
GreaterOrEqual(m, level) ==
    IF IsRaised(m) THEN m
    ELSE Tensor(m.shape, [k \in 1..Len(m.data) |-> m.data[k] >= level.data[1]])

\* the mask thresholded with >= instead of >
pytorch_mask_ge(slf, activations, unit) ==
    LET a == Select(activations, unit)
        level == level_for(slf, activations, unit).ret
        uo == upsampler_for(slf, a)
        loc == [a |-> a, level |-> level]
    IN  IF IsRaised(a) THEN {Outcome(slf, a, None)}
        ELSE IF IsRaised(level) THEN {Outcome(slf, level, None)}
        ELSE { Outcome(uo.self, r, loc) :
                 r \in { GreaterOrEqual(m, level) : m \in Upsample(uo.ret, a, "bilinear") } }

\* the map selected with the resolved unit (the second element of a pair)
\* instead of the unit as given
pytorch_mask_resolved(slf, activations, unit) ==
    LET u == IF unit /= None /\ HasLen(unit) THEN PyInt(unit.v[2]) ELSE unit
        a == Select(activations, u)
        level == level_for(slf, activations, unit).ret
        uo == upsampler_for(slf, a)
        loc == [a |-> a, level |-> level]
    IN  IF IsRaised(a) THEN {Outcome(slf, a, None)}
        ELSE IF IsRaised(level) THEN {Outcome(slf, level, None)}
        ELSE { Outcome(uo.self, r, loc) :
                 r \in { GreaterThan(m, level) : m \in Upsample(uo.ret, a, "bilinear") } }

\* The outcomes of pytorch_mask: one for each map the upsampler may return.
pytorch_mask(slf, activations, unit) ==
    LET a == Select(activations, unit)
        level == level_for(slf, activations, unit).ret
        uo == upsampler_for(slf, a)
        loc == [a |-> a, level |-> level]
    IN  IF IsRaised(a) THEN {Outcome(slf, a, None)}
        ELSE IF IsRaised(level) THEN {Outcome(slf, level, None)}
        ELSE { Outcome(uo.self, r, loc) :
                 r \in { GreaterThan(m, level) : m \in Upsample(uo.ret, a, "bilinear") } }

\* amin, amax = <a pair or a row of two>
Unpack2(r) ==
    IF r.cls = "tuple" THEN <<r.v[1].data[1], r.v[2].data[1]>>
    ELSE <<r.data[1], r.data[2]>>

\* The image made from cm.hot((a - amin) / (1e-10 + amax - amin)) * 255: each
\* pixel is kept as the pair (a - amin, amax - amin) the colour is looked up by.
heatmap(slf, activations, unit, mode) ==
    LET r == range_for(slf, activations, unit)
        a == Select(activations, unit)
        uo == upsampler_for(slf, a)
    IN  IF IsRaised(r) THEN {Outcome(slf, r, None)}
        ELSE IF IsRaised(a) THEN {Outcome(slf, a, None)}
        ELSE LET amin == Unpack2(r)[1]
                 amax == Unpack2(r)[2]
                 loc == [a |-> a, amin |-> amin, amax |-> amax]
             IN  { IF IsRaised(m) THEN Outcome(uo.self, m, loc)
                   ELSE Outcome(uo.self,
                                [cls |-> "Image", shape |-> m.shape \o <<4>>,
                                 hot |-> [k \in 1..Len(m.data) |->
                                            <<m.data[k] - amin, amax - amin>>]],
                                loc)
                   : m \in Upsample(uo.ret, a, mode) }

\* inside = mask & (~border); outside = ~mask & (~border)
Inside(mask, border) ==
    Tensor(mask.shape, [k \in 1..Len(mask.data) |-> mask.data[k] /\ ~border.data[k]])

\* outside taken as everything that is not mask
Outside_not_mask(mask, border) ==
    Tensor(mask.shape, [k \in 1..Len(mask.data) |-> ~mask.data[k]])

Outside(mask, border) ==
    Tensor(mask.shape, [k \in 1..Len(mask.data) |-> ~mask.data[k] /\ ~border.data[k]])

\* d.float() of a boolean
Float(b) == IF b THEN 1 ELSE 0

\* torch.tensor([255.0, 255.0, 0])
yellow == <<255, 255, 0>>

\* The rest of masked_image once scaled_image, mask and border are known:
\* the three classes of pixels and the image composed from them.
Render(slf, si, mask, border) ==
    LET h == si.shape[2]
        w == si.shape[3]
        inside == Inside(mask, border)
        outside == Outside(mask, border)
        result_image ==
            Tensor(si.shape,
                [k \in 1..Len(si.data) |->
                    LET ch == (k - 1) \div (h * w)
                        p == ((k - 1) % (h * w)) + 1
                    IN  ClampByteHalves(
                            2 * si.data[k] * Float(inside.data[p])
                            + 2 * yellow[ch + 1] * Float(border.data[p])
                            + si.data[k] * Float(outside.data[p]))])
    IN  Outcome(slf, Image(Permute120(result_image)),
                [scaled_image |-> si, mask |-> mask, border |-> border,
                 inside |-> inside, outside |-> outside,
                 result_image |-> result_image])

\* The outcomes of masked_image, one for each outcome of pytorch_mask.  (The
\* one-element sets bind scaled_image and border to their values.)
masked_image(slf, imagedata, activations, unit) ==
    UNION { UNION { IF IsRaised(mo.ret) THEN {mo}
                    ELSE { Render(mo.self, si, mo.ret, border) :
                             border \in {border_from_mask(mo.ret).out} }
                    : mo \in pytorch_mask(slf, activations, unit) }
            : si \in {scaled_image(slf, imagedata)} }

(***************************************************************************)
(* The visualizer specification: a visualizer is constructed from args and *)
(* then called, in any order and any number of times, with the arguments   *)
(* inp.                                                                    *)
(***************************************************************************)
\* activation tensors: a grid [H, W], channels [C, H, W], groups [G, C, H, W]
ActShapes == {<<1, 2>>, <<2, 1, 2>>, <<1, 2, 1, 1>>}

\* unit selectors: None, a channel, a (group, channel) pair
Units == {None, PyInt(0), PyTuple(<<0, 1>>)}

\* a batch of one image [3, 1, 2] in zero-centred encoding
Images == {Tensor(<<1, 3, 1, 2>>, <<1, 0, 0, -1, 1, 1>>)}

\* the modes heatmap is called with
Modes == {"bilinear", "nearest"}

LevelTable == Tensor(<<2>>, <<0, 1>>)
RangeTable == Tensor(<<2, 2>>, <<0, 1, 0, 2>>)
Quantiles == [cls |-> "RunningQuantile", q01 |-> <<0, 1>>, q99 |-> <<1, 1>>]
Convolutions == PyList(<<2>>)

\* (input_size, data_size, convolutions): no geometry, a data size given, a
\* data size derived from the convolutions
Geometries ==
    { <<None, None, None>>,
      <<None, PyTuple(<<1, 2>>), None>>,
      <<PyTuple(<<2, 4>>), None, Convolutions>> }

\* (level, actrange, quantiles): no table, tables given, tables derived
\* from the quantiles
Tables ==
    { <<None, None, None>>,
      <<None, RangeTable, None>>,
      <<None, None, Quantiles>>,
      <<LevelTable, None, Quantiles>> }

Init ==
    /\ \E t \in Geometries, q \in Tables :
           args = [NoArgs EXCEPT !.size = PyTuple(<<1, 4>>),
                                 !.input_size = t[1], !.data_size = t[2],
                                 !.convolutions = t[3],
                                 !.level = q[1], !.actrange = q[2],
                                 !.quantiles = q[3]]
    /\ pc = "new"
    /\ self = None
    /\ \E shape \in ActShapes, unit \in Units, img \in Images :
           \E d \in [1..Prod(shape) -> 0..MaxVal] :
               inp = [activations |-> Tensor(shape, d), unit |-> unit, imagedata |-> img]
    /\ op = "none"
    /\ ret = None
    /\ frame = None

\* ImageVisualizer(**args)
Construct ==
    /\ pc = "new"
    /\ LET r == __init__(args)
       IN  IF IsRaised(r)
           THEN pc' = "failed" /\ self' = None /\ ret' = r
           ELSE pc' = "ready" /\ self' = r /\ ret' = None
    /\ op' = "__init__"
    /\ frame' = None
    /\ UNCHANGED <<args, inp>>

\* one of the outcomes o of a call named name
Return(name, o) ==
    /\ op' = name
    /\ self' = o.self
    /\ ret' = o.ret
    /\ frame' = o.frame
    /\ UNCHANGED <<args, pc, inp>>

Heatmap ==
    /\ pc = "ready"
    /\ \E mode \in Modes :
           \E o \in heatmap(self, inp.activations, inp.unit, mode) : Return("heatmap", o)

ImageCall ==
    /\ pc = "ready"
    /\ Return("image", Outcome(self, image(self, inp.imagedata), None))

MaskedImage ==
    /\ pc = "ready"
    /\ \E o \in masked_image(self, inp.imagedata, inp.activations, inp.unit) :
           Return("masked_image", o)

PytorchMask ==
    /\ pc = "ready"
    /\ \E o \in pytorch_mask(self, inp.activations, inp.unit) : Return("pytorch_mask", o)

ScaledImage ==
    /\ pc = "ready"
    /\ Return("scaled_image", Outcome(self, scaled_image(self, inp.imagedata), None))

UpsamplerFor ==
    /\ pc = "ready"
    /\ LET a == Select(inp.activations, inp.unit)
       IN  /\ ~IsRaised(a)
           /\ Return("upsampler_for", upsampler_for(self, a))

RangeFor ==
    /\ pc = "ready"
    /\ Return("range_for", Outcome(self, range_for(self, inp.activations, inp.unit), None))

LevelFor ==
    /\ pc = "ready"
    /\ LET o == level_for(self, inp.activations, inp.unit)
       IN  Return("level_for", Outcome(self, o.ret, o.frame))

Next ==
    \/ Construct
    \/ Heatmap
    \/ ImageCall
    \/ MaskedImage
    \/ PytorchMask
    \/ ScaledImage
    \/ UpsamplerFor
    \/ RangeFor
    \/ LevelFor

Spec == Init /\ [][Next]_vars

(***************************************************************************)
(* The sizer specification: a source object is searched for its sizer, its *)
(* input size is read, and a visualizer is constructed from it, with and   *)
(* without an explicit input_size.                                         *)
(***************************************************************************)
InitSizer ==
    /\ \E source \in Trees(MaxNodes), input_size \in {None, PyTuple(<<2, 4>>)} :
           args = [NoArgs EXCEPT !.size = PyTuple(<<1, 4>>),
                                 !.source = source, !.input_size = input_size]
    /\ pc = "new"
    /\ self = None
    /\ inp = None
    /\ op = "none"
    /\ ret = None
    /\ frame = None

FindSizer ==
    /\ op' = "find_sizer"
    /\ ret' = find_sizer(args.source)
    /\ frame' = None
    /\ UNCHANGED <<args, pc, self, inp>>

InputSizeFromSource ==
    /\ op' = "input_size_from_source"
    /\ ret' = input_size_from_source(args.source)
    /\ frame' = None
    /\ UNCHANGED <<args, pc, self, inp>>

NextSizer ==
    \/ FindSizer
    \/ InputSizeFromSource
    \/ Construct

SpecSizer == InitSizer /\ [][NextSizer]_vars

\* The search the documentation describes: the object itself if it is a
\* crop/resize transform, else the search of its `transform`, else the
\* search of its `transforms` from the last element backward.
RECURSIVE LastSizer(_)
RECURSIVE LastSizerIn(_, _)
LastSizerIn(ts, i) ==
    IF i = 0 THEN None
    ELSE IF LastSizer(ts[i]) /= None THEN LastSizer(ts[i])
    ELSE LastSizerIn(ts, i - 1)
LastSizer(t) ==
    IF t = None THEN None
    ELSE IF t.cls \in SizerClasses THEN t
    ELSE IF getattr(t, "transform", None) /= None THEN LastSizer(t.transform)
    ELSE IF "transforms" \in DOMAIN t
         THEN LastSizerIn(t.transforms.v, Len(t.transforms.v))
    ELSE None

(***************************************************************************)
(* C5: find_sizer returns the object itself when it is a crop/resize       *)
(* transform, and else, when the object has a non-None `transform`, the    *)
(* result of the same search on that attribute: the crop/resize transform  *)
(* of the chain a dataset wraps.                                           *)
(***************************************************************************)
C5_TransformIsSearched ==
    op = "find_sizer" /\ args.source /= None =>
        /\ args.source.cls \in SizerClasses => ret = args.source
        /\ (/\ args.source.cls \notin SizerClasses
            /\ getattr(args.source, "transform", None) /= None)
           => ret = LastSizer(args.source.transform)

(***************************************************************************)
(* C6: for an object with a `transforms` sequence and no `transform`,      *)
(* find_sizer returns the first crop/resize transform met scanning the     *)
(* sequence from its last element backward, depth-first, and None when     *)
(* the nested chain holds none.                                            *)
(***************************************************************************)
C6_LastSizerOfSequence ==
    (/\ op = "find_sizer"
     /\ args.source /= None
     /\ args.source.cls \notin SizerClasses
     /\ getattr(args.source, "transform", None) = None
     /\ "transforms" \in DOMAIN args.source)
    => ret = LastSizer(args.source)

(***************************************************************************)
(* C9: constructed with a source and no input_size, when the search of the *)
(* source yields no crop/resize transform, __init__ raises and no          *)
(* visualizer exists; with an explicit input_size the source is not        *)
(* searched for a size: the visualizer is built with the size given.       *)
(***************************************************************************)
FoundSizer(source) ==
    LET r == find_sizer(source) IN ~IsRaised(r) /\ r /= None

C9_UndeterminedSizeRaises ==
    op = "__init__" /\ args.source /= None =>
        /\ (args.input_size = None /\ ~FoundSizer(args.source))
           => pc = "failed" /\ IsRaised(ret) /\ self = None
        /\ args.input_size /= None
           => pc = "ready" /\ self.input_size = args.input_size

\* [ToTensor, ToTensor] holds no crop/resize transform: reading .size of
\* the None that find_sizer returns raises
C9_Witness ==
    /\ op = "__init__"
    /\ args.source = Compose(<<ToTensor, ToTensor>>)
    /\ args.input_size = None
    /\ pc = "failed"
    /\ ret = Raise("AttributeError")

(***************************************************************************)
(* Claims about the visualizer.                                            *)
(***************************************************************************)
Pixels(t) == 1..Len(t.data)

AllFalse(t) == \A k \in Pixels(t) : ~t.data[k]

\* the number of true conjuncts among three
Count3(x, y, z) == Float(x) + Float(y) + Float(z)

(***************************************************************************)
(* C2: in masked_image, with border the border of mask, inside, border and *)
(* outside are pairwise disjoint and cover every pixel, and each pixel of  *)
(* the result is the scaled image value where inside, (255, 255, 0) where  *)
(* border, and half the scaled image value where outside.                  *)
(***************************************************************************)
C2_PartitionOfPixels ==
    op = "masked_image" /\ ~IsRaised(ret) =>
        LET mask == frame.mask
            si == frame.scaled_image
            n == Len(mask.data)
        IN  /\ \A i \in 0..(mask.shape[1] - 1), j \in 0..(mask.shape[2] - 1) :
                   At(frame.border, i, j) <=> DiffersFromNeighbour(mask, i, j)
            /\ \A p \in 1..n :
                   /\ Count3(frame.inside.data[p], frame.border.data[p],
                             frame.outside.data[p]) = 1
                   /\ frame.inside.data[p] => mask.data[p]
                   /\ frame.outside.data[p] => ~mask.data[p]
                   /\ \A ch \in 0..2 :
                          ret.data[(p - 1) * 3 + ch + 1] =
                              IF frame.inside.data[p] THEN si.data[ch * n + p]
                              ELSE IF frame.border.data[p] THEN yellow[ch + 1]
                              ELSE si.data[ch * n + p] \div 2

\* a mask with an inside, a border and an outside pixel at once
C2_Witness ==
    /\ op = "masked_image"
    /\ ~IsRaised(ret)
    /\ \E p \in Pixels(frame.mask) : frame.inside.data[p]
    /\ \E p \in Pixels(frame.mask) : frame.border.data[p]
    /\ \E p \in Pixels(frame.mask) : frame.outside.data[p]

(***************************************************************************)
(* C3, as stated: whenever a table is configured the result is read from   *)
(* the table and nothing is computed from the activations (computation     *)
(* happens only when no table is configured).                              *)
(***************************************************************************)
C3_TableMeansNoComputation ==
    /\ (op = "range_for" /\ self.actrange /= None) => ret.cls /= "tuple"
    /\ (op = "level_for" /\ self.level /= None) => frame.s = None

\* the index of the table a selector other than None resolves to
ResolvedIndex(unit) == IF unit.cls = "tuple" THEN unit.v[2] ELSE unit.v

(***************************************************************************)
(* C3, amended: whenever a table is configured and the unit is not None,   *)
(* the result is the table entry at the resolved unit and nothing is       *)
(* computed; min/max or the sort are computed only when no table is        *)
(* configured or the unit is None.                                         *)
(***************************************************************************)
C3_TableEntryForGivenUnit ==
    /\ op = "range_for" =>
          /\ (inp.unit /= None /\ self.actrange /= None) =>
                 LET u == ResolvedIndex(inp.unit)
                 IN  ret = Tensor(<<2>>, <<self.actrange.data[2 * u + 1],
                                          self.actrange.data[2 * u + 2]>>)
          /\ ret.cls = "tuple" => (self.actrange = None \/ inp.unit = None)
    /\ op = "level_for" =>
          /\ (inp.unit /= None /\ self.level /= None) =>
                 /\ ret = Scalar(self.level.data[ResolvedIndex(inp.unit) + 1])
                 /\ frame.s = None
          /\ frame.s /= None => (self.level = None \/ inp.unit = None)

\* the pair (0, 1) reads row 1 of the range table
C3_Witness ==
    /\ op = "range_for"
    /\ inp.unit = PyTuple(<<0, 1>>)
    /\ self.actrange = RangeTable
    /\ ret = Tensor(<<2>>, <<0, 2>>)

(***************************************************************************)
(* C4: with no table configured, for every unit, range_for returns the     *)
(* (minimum, maximum) of the whole activation tensor and level_for the     *)
(* element at index floor(0.99 N) of its N values sorted ascending, an     *)
(* index within 0..N-1.                                                    *)
(***************************************************************************)
\* x is the element at 0-based index k of the ascending sort of d
IsOrderStatistic(x, d, k) ==
    /\ \E i \in 1..Len(d) : d[i] = x
    /\ Cardinality({ i \in 1..Len(d) : d[i] < x }) <= k
    /\ Cardinality({ i \in 1..Len(d) : d[i] <= x }) >= k + 1

C4_OnTheFlyRangeAndLevel ==
    LET d == inp.activations.data
        N == Len(d)
    IN  /\ (op = "range_for" /\ self.actrange = None) =>
              /\ ret.cls = "tuple"
              /\ \E i \in 1..N : d[i] = ret.v[1].data[1]
              /\ \E i \in 1..N : d[i] = ret.v[2].data[1]
              /\ \A i \in 1..N : ret.v[1].data[1] <= d[i] /\ d[i] <= ret.v[2].data[1]
        /\ (op = "level_for" /\ self.level = None) =>
              /\ (99 * N) \div 100 \in 0..(N - 1)
              /\ ~IsRaised(ret)
              /\ ret.shape = <<>>
              /\ IsOrderStatistic(ret.data[1], d, (99 * N) \div 100)
              /\ frame.s.data[(99 * N) \div 100 + 1] = ret.data[1]

\* four values with a single greatest one, a channel selected: the level is
\* still the greatest value of the whole tensor
C4_Witness ==
    /\ op = "level_for"
    /\ self.level = None
    /\ inp.unit = PyInt(0)
    /\ inp.activations = Tensor(<<2, 1, 2>>, <<0, 0, 0, 1>>)
    /\ ret = Scalar(1)

(***************************************************************************)
(* C7: heatmap and pytorch_mask select the whole tensor when unit is None  *)
(* and activations[unit], with the unit as given, otherwise; the range and *)
(* level tables are read at the second element of a pair and at the unit   *)
(* itself for an integer.                                                  *)
(***************************************************************************)
C7_UnitResolution ==
    op \in {"heatmap", "pytorch_mask"} =>
        LET expected == IF inp.unit = None THEN inp.activations
                        ELSE GetItem(inp.activations, inp.unit)
        IN  IF IsRaised(expected) THEN ret = expected
            ELSE /\ frame /= None
                 /\ frame.a = expected
                 /\ (op = "pytorch_mask" /\ inp.unit /= None /\ self.level /= None) =>
                        frame.level = Scalar(self.level.data[ResolvedIndex(inp.unit) + 1])
                 /\ (op = "heatmap" /\ inp.unit /= None /\ self.actrange /= None) =>
                        LET u == ResolvedIndex(inp.unit)
                        IN  /\ frame.amin = self.actrange.data[2 * u + 1]
                            /\ frame.amax = self.actrange.data[2 * u + 2]

\* the pair (0, 1): the map is activations[0, 1] and the level is level[1]
C7_Witness ==
    /\ op = "pytorch_mask"
    /\ inp.unit = PyTuple(<<0, 1>>)
    /\ inp.activations.shape = <<1, 2, 1, 1>>
    /\ inp.activations.data[1] /= inp.activations.data[2]
    /\ self.level = LevelTable
    /\ ~IsRaised(ret)
    /\ frame.a = Tensor(<<1, 1>>, <<inp.activations.data[2]>>)
    /\ frame.level = Scalar(1)

(***************************************************************************)
(* C8: once constructed, no call changes an attribute of the visualizer;   *)
(* the upsampler slot is set exactly when the constructor knew a data      *)
(* size, and a call that builds an upsampler does not store it.            *)
(***************************************************************************)
C8_CallsLeaveSelfUnchanged ==
    /\ [][pc = "ready" => (self' = self /\ pc' = "ready")]_vars
    /\ [](pc = "ready" =>
            /\ self = __init__(args)
            /\ (self.upsampler /= None) <=> (self.data_size /= None)
            /\ self.data_size /= None <=>
                   (args.data_size /= None \/ args.convolutions /= None))

\* a mask was made with an upsampler built for the call, and the slot is
\* still empty
C8_Witness ==
    /\ pc = "ready"
    /\ op = "pytorch_mask"
    /\ ~IsRaised(ret)
    /\ self.upsampler = None

(***************************************************************************)
(* C10: when the level is computed from the activations (no level table,   *)
(* or unit None), it is the greatest activation; the mask is all false,    *)
(* and masked_image has no inside and no border pixel: every pixel is the  *)
(* scaled image at half brightness.                                        *)
(***************************************************************************)
C10_OnTheFlyLevelMasksNothing ==
    (pc = "ready" /\ (self.level = None \/ inp.unit = None) /\ ~IsRaised(ret)) =>
        /\ op = "level_for" =>
               /\ ret.shape = <<>>
               /\ \A i \in 1..Len(inp.activations.data) :
                      inp.activations.data[i] <= ret.data[1]
               /\ \E i \in 1..Len(inp.activations.data) :
                      inp.activations.data[i] = ret.data[1]
        /\ op = "pytorch_mask" => AllFalse(ret)
        /\ op = "masked_image" =>
               /\ AllFalse(frame.mask)
               /\ AllFalse(frame.inside)
               /\ AllFalse(frame.border)
               /\ \A k \in 1..Len(frame.scaled_image.data) :
                      frame.result_image.data[k] = frame.scaled_image.data[k] \div 2

\* a grid of two different values: the level is the greater one and the
\* whole image is dimmed
C10_Witness ==
    /\ op = "masked_image"
    /\ self.level = None
    /\ inp.unit = None
    /\ inp.activations = Tensor(<<1, 2>>, <<0, 1>>)
    /\ ~IsRaised(ret)
    /\ \A p \in Pixels(frame.outside) : frame.outside.data[p]
    /\ ret.data = <<127, 63, 127, 127, 63, 127, 63, 0, 127, 63, 0, 127>>

=============================================================================
